---- MODULE Spec2Model ----
(***************************************************************************)
(* Model of tutorial_poc.py: the streaming decoder                         *)
(* GPTMeAPIClient.generate_response_stream (a Python generator over the    *)
(* byte lines of a streamed HTTP response) and the demo flow main().       *)
(*                                                                         *)
(* Lines are sequences of bytes (0..255), as response.iter_lines() yields  *)
(* them.  A generator call (next()) is split at the loop iterations: one   *)
(* action per iteration of the for loop, so that what has been read is     *)
(* visible between iterations.                                             *)
(***************************************************************************)
EXTENDS Integers, Sequences, FiniteSets

VARIABLES
    gen,        \* generator: "created" | "requesting" | "running" | "suspended" | "done"
    lines,      \* the body of the streamed response, one byte sequence per line
    nread,      \* number of lines taken from response.iter_lines()
    yielded,    \* the chunks handed to the caller, in order
    diags,      \* the payloads printed by "Failed to parse: ..."
    exc,        \* how the generator ended: "none" while it lives
    conn,       \* the HTTP connection: "none" | "open" | "released" | "closed"
    pulls,      \* next() calls that entered the generator body
    extraPulls, \* next() calls made on the finished generator
    fault,      \* the request-level failure that occurred ("none" if none)
    stopped,    \* the caller has stopped pulling
    mpc,        \* main(): the step it is at
    log,        \* main(): the requests issued so far, in order
    inflight,   \* main(): the request issued and not yet returned ("none" if none)
    outcome,    \* main(): how each finished step ended
    mresult     \* main(): "running" | "returned" | "propagated"

vars == <<gen, lines, nread, yielded, diags, exc, conn, pulls, extraPulls,
          fault, stopped, mpc, log, inflight, outcome, mresult>>

decoderVars == <<gen, lines, nread, yielded, diags, exc, conn, pulls,
                 extraPulls, fault, stopped>>

mainVars == <<mpc, log, inflight, outcome, mresult>>

(***************************************************************************)
(* Bounds.                                                                 *)
(***************************************************************************)
MaxLines == 3

MaxExtraPulls == 1

(***************************************************************************)
(* Bytes and text.                                                         *)
(***************************************************************************)
\* "data: " in ASCII / as code points.
Prefix == <<100, 97, 116, 97, 58, 32>>

\* The sample lines a response body is built from.
LineEmpty == << >>
LineBlank == <<32>>
LineKeepAlive == <<58>>
LineNoSpace == <<100, 97, 116, 97, 58, 123, 125>>
LineObject == Prefix \o <<123, 125>>
LineNumber == Prefix \o <<49>>
LineBadJson == Prefix \o <<123>>
LineBadUtf8 == <<255>>
LineDataBadUtf8 == Prefix \o <<255>>

LineUniverse ==
    { LineEmpty, LineBlank, LineKeepAlive, LineNoSpace, LineObject,
      LineNumber, LineBadJson, LineBadUtf8, LineDataBadUtf8 }

Bodies == UNION { [1..n -> LineUniverse] : n \in 0..MaxLines }

\* str.startswith
StartsWith(s, p) == Len(s) >= Len(p) /\ SubSeq(s, 1, Len(p)) = p

\* line_str[6:]
StripPrefix(s) == SubSeq(s, Len(Prefix) + 1, Len(s))

\* Width of the UTF-8 sequence a lead byte opens; 0 for a byte that opens none.
Utf8Width(b) ==
    IF b < 128 THEN 1
    ELSE IF b \in 194..223 THEN 2
    ELSE IF b \in 224..239 THEN 3
    ELSE IF b \in 240..244 THEN 4
    ELSE 0

\* The range allowed for the second byte (no overlong forms, no surrogates,
\* nothing above U+10FFFF).
Utf8Second(b) ==
    IF b = 224 THEN 160..191
    ELSE IF b = 237 THEN 128..159
    ELSE IF b = 240 THEN 144..191
    ELSE IF b = 244 THEN 128..143
    ELSE 128..191

\* bytes.decode("utf-8"): the code points, or ok = FALSE (UnicodeDecodeError).
RECURSIVE Utf8Decode(_)
Utf8Decode(b) ==
    IF b = << >> THEN [ok |-> TRUE, str |-> << >>]
    ELSE
        LET n == Utf8Width(b[1])
            valid == /\ n > 0
                     /\ Len(b) >= n
                     /\ n >= 2 => b[2] \in Utf8Second(b[1])
                     /\ \A k \in 3..n : b[k] \in 128..191
            cp == IF n = 1 THEN b[1]
                  ELSE IF n = 2 THEN (b[1] - 192) * 64 + (b[2] - 128)
                  ELSE IF n = 3 THEN (b[1] - 224) * 4096 + (b[2] - 128) * 64
                                     + (b[3] - 128)
                  ELSE (b[1] - 240) * 262144 + (b[2] - 128) * 4096
                       + (b[3] - 128) * 64 + (b[4] - 128)
            rest == Utf8Decode(SubSeq(b, n + 1, Len(b)))
        IN  IF ~valid THEN [ok |-> FALSE, str |-> << >>]
            ELSE IF ~rest.ok THEN rest
            ELSE [ok |-> TRUE, str |-> <<cp>> \o rest.str]

\* JSON whitespace: space, tab, line feed, carriage return.
JsonWs == {32, 9, 10, 13}

RECURSIVE LStrip(_)
LStrip(s) ==
    IF s # << >> /\ s[1] \in JsonWs THEN LStrip(Tail(s)) ELSE s

RECURSIVE RStrip(_)
RStrip(s) ==
    IF s # << >> /\ s[Len(s)] \in JsonWs
    THEN RStrip(SubSeq(s, 1, Len(s) - 1))
    ELSE s

\* A JSON integer: an optional minus, then 0 or a digit string without a
\* leading zero.
IsJsonInt(t) ==
    LET d == IF t # << >> /\ t[1] = 45 THEN Tail(t) ELSE t
    IN  /\ d # << >>
        /\ \A i \in 1..Len(d) : d[i] \in 48..57
        /\ Len(d) > 1 => d[1] # 48

\* json.loads on the documents the sample lines carry: an empty object, an
\* empty array, an integer; anything else among them is a JSONDecodeError.
\* (Strings, non-empty containers and fractions do not occur in LineUniverse.)
JsonLoads(s) ==
    LET t == RStrip(LStrip(s))
    IN  IF t # << >> /\ t[1] = 123 /\ t[Len(t)] = 125 /\ Len(t) >= 2
           /\ LStrip(SubSeq(t, 2, Len(t) - 1)) = << >>
        THEN [ok |-> TRUE, val |-> [type |-> "object", text |-> <<123, 125>>]]
        ELSE IF t # << >> /\ t[1] = 91 /\ t[Len(t)] = 93 /\ Len(t) >= 2
                /\ LStrip(SubSeq(t, 2, Len(t) - 1)) = << >>
        THEN [ok |-> TRUE, val |-> [type |-> "array", text |-> <<91, 93>>]]
        ELSE IF IsJsonInt(t)
        THEN [ok |-> TRUE, val |-> [type |-> "number", text |-> t]]
        ELSE [ok |-> FALSE, val |-> [type |-> "error", text |-> t]]

(***************************************************************************)
(* The generator generate_response_stream.                                 *)
(***************************************************************************)
\* The generator ends with exception e (StopIteration: a normal return).
Finish(e) ==
    /\ gen' = "done"
    /\ exc' = e

\* The only handler of the generator: except json.JSONDecodeError around
\* yield json.loads(data).
Caught(site, e) == site = "loads" /\ e = "JSONDecodeError"

\* A decoder that does not stop at the chunk: it hands it over and reads on.
YieldChunkEager(v) ==
    /\ yielded' = Append(yielded, v)
    /\ gen' = "running"
    /\ UNCHANGED <<diags, exc>>

\* yield: the chunk goes to the caller and the generator is suspended.
YieldChunk(v) ==
    /\ yielded' = Append(yielded, v)
    /\ gen' = "suspended"
    /\ UNCHANGED <<diags, exc>>

\* print(f"Failed to parse: {data}"), then the next iteration.
Report(data) ==
    /\ diags' = Append(diags, data)
    /\ UNCHANGED <<yielded, gen, exc>>

\* Nothing for this line; the next iteration.
Skip == UNCHANGED <<yielded, diags, gen, exc>>

\* An exception no handler of the generator catches: it leaves the generator.
Propagate(e) ==
    /\ Finish(e)
    /\ UNCHANGED <<yielded, diags>>

\* The body of one iteration of the for loop, for the line just read.
ProcessLine(line) ==
    IF line = << >> THEN Skip
    ELSE
        LET d == Utf8Decode(line)
        IN  IF ~d.ok
            THEN IF Caught("decode", "UnicodeDecodeError")
                 THEN Skip
                 ELSE Propagate("UnicodeDecodeError")
            ELSE IF StartsWith(d.str, Prefix)
            THEN LET data == StripPrefix(d.str)
                     r == JsonLoads(data)
                 IN  IF r.ok THEN YieldChunk(r.val)
                     ELSE IF Caught("loads", "JSONDecodeError")
                     THEN Report(data)
                     ELSE Propagate("JSONDecodeError")
            ELSE Skip

\* The caller's first next(): the generator body starts and issues the POST.
Pull ==
    /\ mpc = "stream"
    /\ gen = "created"
    /\ ~stopped
    /\ inflight = "none"
    /\ gen' = "requesting"
    /\ pulls' = pulls + 1
    /\ log' = Append(log, "stream")
    /\ inflight' = "stream"
    /\ UNCHANGED <<lines, nread, yielded, diags, exc, conn, extraPulls, fault,
                   stopped, mpc, outcome, mresult>>

\* requests.post returns a success response; its body is left on the wire.
ResponseOk ==
    /\ gen = "requesting"
    /\ \E body \in Bodies : lines' = body
    /\ conn' = "open"
    /\ gen' = "running"
    /\ inflight' = "none"
    /\ UNCHANGED <<nread, yielded, diags, exc, pulls, extraPulls, fault,
                   stopped, mpc, log, outcome, mresult>>

\* requests.post returns a non-success response: raise_for_status raises, the
\* unread streamed response stays as it is.
ResponseStatusError ==
    /\ gen = "requesting"
    /\ conn' = "open"
    /\ fault' = "HTTPError"
    /\ Finish("HTTPError")
    /\ inflight' = "none"
    /\ UNCHANGED <<lines, nread, yielded, diags, pulls, extraPulls, stopped,
                   mpc, log, outcome, mresult>>

\* requests.post itself fails: no connection.
RequestFails ==
    /\ gen = "requesting"
    /\ fault' = "ConnectionError"
    /\ Finish("ConnectionError")
    /\ inflight' = "none"
    /\ UNCHANGED <<lines, nread, yielded, diags, conn, pulls, extraPulls,
                   stopped, mpc, log, outcome, mresult>>

\* for line in response.iter_lines(): the next line arrives and is processed.
ReadLine ==
    /\ gen = "running"
    /\ nread < Len(lines)
    /\ nread' = nread + 1
    /\ ProcessLine(lines[nread + 1])
    /\ UNCHANGED <<lines, conn, pulls, extraPulls, fault, stopped>>
    /\ UNCHANGED mainVars

\* iter_lines() is exhausted: the body was read to its end, which hands the
\* connection back; the generator returns.
SourceExhausted ==
    /\ gen = "running"
    /\ nread = Len(lines)
    /\ Finish("StopIteration")
    /\ conn' = "released"
    /\ UNCHANGED <<lines, nread, yielded, diags, pulls, extraPulls, fault,
                   stopped>>
    /\ UNCHANGED mainVars

\* A decoder that swallows the failed read and ends as if the body were over.
SourceFailsSilently ==
    /\ gen = "running"
    /\ fault' = "ConnectionError"
    /\ conn' = "closed"
    /\ Finish("StopIteration")
    /\ UNCHANGED <<lines, nread, yielded, diags, pulls, extraPulls, stopped>>
    /\ UNCHANGED mainVars

\* The read of the next line fails (the connection breaks): iter_lines()
\* raises inside the for statement, which no handler encloses.
SourceFails ==
    /\ gen = "running"
    /\ fault' = "ConnectionError"
    /\ conn' = "closed"
    /\ Finish("ConnectionError")
    /\ UNCHANGED <<lines, nread, yielded, diags, pulls, extraPulls, stopped>>
    /\ UNCHANGED mainVars

\* The caller's next() on the suspended generator: it goes on after the yield.
Resume ==
    /\ gen = "suspended"
    /\ ~stopped
    /\ gen' = "running"
    /\ pulls' = pulls + 1
    /\ UNCHANGED <<lines, nread, yielded, diags, exc, conn, extraPulls, fault,
                   stopped>>
    /\ UNCHANGED mainVars

\* The caller stops pulling; the generator stays suspended at its yield.
Abandon ==
    /\ gen = "suspended"
    /\ ~stopped
    /\ stopped' = TRUE
    /\ UNCHANGED <<gen, lines, nread, yielded, diags, exc, conn, pulls,
                   extraPulls, fault>>
    /\ UNCHANGED mainVars

\* A sequence that starts over when pulled after its end.
PullAfterDoneRestarts ==
    /\ gen = "done"
    /\ extraPulls < MaxExtraPulls
    /\ extraPulls' = extraPulls + 1
    /\ gen' = "running"
    /\ nread' = 0
    /\ UNCHANGED <<lines, yielded, diags, exc, conn, pulls, fault, stopped>>
    /\ UNCHANGED mainVars

\* next() on the finished generator: StopIteration, the body does not run.
PullAfterDone ==
    /\ gen = "done"
    /\ extraPulls < MaxExtraPulls
    /\ extraPulls' = extraPulls + 1
    /\ UNCHANGED <<gen, lines, nread, yielded, diags, exc, conn, pulls, fault,
                   stopped>>
    /\ UNCHANGED mainVars

\* The runtime may at some time collect the generator nobody pulls any more
\* (GeneratorExit at the yield, caught by nothing) and the response it held.
\* The function itself never closes the response.
Collect ==
    /\ \/ gen = "suspended" /\ stopped
       \/ gen = "done" /\ conn = "open"
    /\ gen' = "done"
    /\ exc' = IF gen = "suspended" THEN "GeneratorExit" ELSE exc
    /\ conn' = IF conn = "open" THEN "closed" ELSE conn
    /\ UNCHANGED <<lines, nread, yielded, diags, pulls, extraPulls, fault,
                   stopped>>
    /\ UNCHANGED mainVars

(***************************************************************************)
(* main(): the demo flow.                                                  *)
(***************************************************************************)
\* The requests of main() in program order.
Program ==
    <<"health", "list", "create", "fetch", "generate", "add_message", "stream">>

Steps == { Program[i] : i \in 1..Len(Program) }

\* The steps made of one blocking client call (the stream is the generator's).
PlainSteps == Steps \ {"stream"}

\* How a call, with the handling of its result, can end.
Outcomes == {"ok", "ConnectionError", "HTTPError", "Exception"}

\* The step that follows s in the program text ("done" after the last).
Following(s) ==
    LET i == CHOOSE k \in 1..Len(Program) : Program[k] = s
    IN  IF i < Len(Program) THEN Program[i + 1] ELSE "done"

\* main() without the try around the generate call.
HandlerWithoutGenerateTry(s, e) ==
    IF s = "health" /\ e = "ConnectionError" THEN "except_221"
    ELSE IF s = "stream" THEN "except_290"
    ELSE IF e = "HTTPError" THEN "except_307"
    ELSE "except_309"

\* The except clause that catches exception e raised in step s (innermost
\* try first), named by its line.
Handler(s, e) ==
    IF s = "health" /\ e = "ConnectionError" THEN "except_221"
    ELSE IF s = "generate" THEN "except_269"
    ELSE IF s = "stream" THEN "except_290"
    ELSE IF e = "HTTPError" THEN "except_307"
    ELSE "except_309"

\* The statement an except clause leads to, for an exception of step s.
Continuation(h, s) ==
    IF h = "except_269" THEN Following(s) ELSE "done"

\* A main() that tries the generate call again when it fails.
AfterWithRetry(s, r) ==
    IF r = "ok" THEN Following(s)
    ELSE IF s = "generate" THEN "generate"
    ELSE "done"

\* Where main() is after step s ended with r.
After(s, r) ==
    IF r = "ok" THEN Following(s) ELSE Continuation(Handler(s, r), s)

\* main() after step s ended with r: still running, returned, or left by an
\* exception no clause caught.
ResultAfter(s, r) ==
    IF After(s, r) # "done" THEN "running"
    ELSE IF r # "ok" /\ Handler(s, r) = "none" THEN "propagated"
    ELSE "returned"

\* main() calls the client method of step s: the request goes out.
Call(s) ==
    /\ mpc = s
    /\ inflight = "none"
    /\ log' = Append(log, s)
    /\ inflight' = s
    /\ UNCHANGED <<mpc, outcome, mresult>>
    /\ UNCHANGED decoderVars

\* The call of step s returns or raises, and main() handles the result.
Return(s, r) ==
    /\ inflight = s
    /\ inflight' = "none"
    /\ outcome' = [outcome EXCEPT ![s] = r]
    /\ mpc' = After(s, r)
    /\ mresult' = ResultAfter(s, r)
    /\ UNCHANGED log
    /\ UNCHANGED decoderVars

\* The body of the for loop over the chunks, on a chunk that has .get: it
\* prints, and the for statement pulls the next chunk.
LoopBodyOk ==
    /\ mpc = "stream"
    /\ gen = "suspended"
    /\ yielded[Len(yielded)].type = "object"
    /\ Resume

\* The body of the for loop on a chunk without .get (not a JSON object):
\* AttributeError, caught by the except around the loop; the generator is
\* left where it is.
LoopBodyRaises ==
    /\ mpc = "stream"
    /\ gen = "suspended"
    /\ ~stopped
    /\ yielded[Len(yielded)].type # "object"
    /\ stopped' = TRUE
    /\ outcome' = [outcome EXCEPT !["stream"] = "Exception"]
    /\ mpc' = After("stream", "Exception")
    /\ mresult' = ResultAfter("stream", "Exception")
    /\ UNCHANGED <<gen, lines, nread, yielded, diags, exc, conn, pulls,
                   extraPulls, fault, log, inflight>>

\* The generator ended: the for loop ends (StopIteration) or its exception
\* reaches the except around the loop.
StreamEnds ==
    /\ mpc = "stream"
    /\ gen = "done"
    /\ LET r == IF exc = "StopIteration" THEN "ok"
                ELSE IF exc \in {"HTTPError", "ConnectionError"} THEN exc
                ELSE "Exception"
       IN  /\ outcome' = [outcome EXCEPT !["stream"] = r]
           /\ mpc' = After("stream", r)
           /\ mresult' = ResultAfter("stream", r)
    /\ UNCHANGED <<log, inflight>>
    /\ UNCHANGED decoderVars

(***************************************************************************)
(* The decoder under an arbitrary caller.                                  *)
(***************************************************************************)
InitDecoder ==
    /\ gen = "created"
    /\ lines = << >>
    /\ nread = 0
    /\ yielded = << >>
    /\ diags = << >>
    /\ exc = "none"
    /\ conn = "none"
    /\ pulls = 0
    /\ extraPulls = 0
    /\ fault = "none"
    /\ stopped = FALSE

Init ==
    /\ InitDecoder
    /\ mpc = "stream"
    /\ log = << >>
    /\ inflight = "none"
    /\ outcome = [s \in Steps |-> "pending"]
    /\ mresult = "running"

Next ==
    \/ Pull
    \/ ResponseOk
    \/ ResponseStatusError
    \/ RequestFails
    \/ ReadLine
    \/ SourceExhausted
    \/ SourceFails
    \/ Resume
    \/ Abandon
    \/ PullAfterDone
    \/ Collect

Spec == Init /\ [][Next]_vars

(***************************************************************************)
(* main() as the caller.                                                   *)
(***************************************************************************)
InitMain ==
    /\ InitDecoder
    /\ mpc = "health"
    /\ log = << >>
    /\ inflight = "none"
    /\ outcome = [s \in Steps |-> "pending"]
    /\ mresult = "running"

NextMain ==
    \/ \E s \in PlainSteps : Call(s)
    \/ \E s \in PlainSteps, r \in Outcomes : Return(s, r)
    \/ Pull
    \/ ResponseOk
    \/ ResponseStatusError
    \/ RequestFails
    \/ ReadLine
    \/ SourceExhausted
    \/ SourceFails
    \/ LoopBodyOk
    \/ LoopBodyRaises
    \/ StreamEnds
    \/ Collect

SpecMain == InitMain /\ [][NextMain]_vars

(***************************************************************************)
(* What the claims speak of.                                               *)
(***************************************************************************)
\* The line, as received, begins with the bytes of "data: ".
IsDataLine(l) == StartsWith(l, Prefix)

\* The payload after the prefix parses.
PayloadParses(l) ==
    /\ IsDataLine(l)
    /\ Utf8Decode(l).ok
    /\ JsonLoads(StripPrefix(Utf8Decode(l).str)).ok

ParsedPayload(l) == JsonLoads(StripPrefix(Utf8Decode(l).str)).val

\* The parsed payloads of the data lines of ls that parse, in order.
RECURSIVE Expected(_)
Expected(ls) ==
    IF ls = << >> THEN << >>
    ELSE IF PayloadParses(Head(ls))
    THEN <<ParsedPayload(Head(ls))>> \o Expected(Tail(ls))
    ELSE Expected(Tail(ls))

ReadSoFar == SubSeq(lines, 1, nread)

DataLinesRead == { i \in 1..nread : IsDataLine(lines[i]) }

\* The decoder's two states.
DecoderClosed == gen = "done" \/ stopped

DecoderState == IF DecoderClosed THEN "CLOSED" ELSE "OPEN"

\* The positions of the lines that produce a chunk.
YieldPositions == { i \in 1..Len(lines) : PayloadParses(lines[i]) }

\* The number of lines that must be read to produce k chunks: up to the
\* k-th line that produces one, or all of them when there are fewer.
NeededFor(k) ==
    IF k = 0 THEN 0
    ELSE IF Cardinality(YieldPositions) < k THEN Len(lines)
    ELSE CHOOSE p \in YieldPositions :
             Cardinality({ q \in YieldPositions : q <= p }) = k

\* The log of requests without those of steps outside order.
RECURSIVE Project(_, _)
Project(l, order) ==
    IF l = << >> THEN << >>
    ELSE IF \E i \in 1..Len(order) : order[i] = Head(l)
    THEN <<Head(l)>> \o Project(Tail(l), order)
    ELSE Project(Tail(l), order)

IsPrefix(a, b) == Len(a) <= Len(b) /\ a = SubSeq(b, 1, Len(a))

\* The six steps the overview names.
StepOrder == <<"health", "list", "create", "fetch", "generate", "stream">>

(***************************************************************************)
(* The claims.                                                             *)
(***************************************************************************)
\* C1: when the decoder has run to its own end on a response that arrived
\* whole (no request-level failure, the caller never stopped), the chunks
\* yielded are, in order, the parsed payloads of exactly the lines that begin
\* with "data: " and parse.
C1_YieldsExactlyTheDataLines ==
    (gen = "done" /\ fault = "none" /\ ~stopped) => yielded = Expected(lines)

\* C2: once the decoder is closed on a path the claim names (source
\* exhausted, caller stopped, decode error), the connection is not open.
C2_ConnectionClosedOnEveryExit ==
    (DecoderClosed /\ fault = "none") => conn # "open"

\* C3: reading a line that begins with "data: " and whose payload does not
\* parse yields nothing, adds exactly one diagnostic, raises nothing and
\* leaves the decoder in its loop.
C3_MalformedLineReportedAndSkipped ==
    [][(nread' = nread + 1 /\ IsDataLine(lines[nread'])
            /\ ~PayloadParses(lines[nread']))
        => (/\ yielded' = yielded
            /\ Len(diags') = Len(diags) + 1
            /\ exc' = "none"
            /\ gen' = "running")]_vars

\* C4: reading a line that does not begin with "data: " yields nothing, adds
\* no diagnostic, raises nothing and leaves the decoder in its loop.
C4_NonPrefixedLineSkipped ==
    [][(nread' = nread + 1 /\ ~IsDataLine(lines[nread']))
        => (/\ yielded' = yielded
            /\ diags' = diags
            /\ exc' = "none"
            /\ gen' = "running")]_vars

\* C5: once the request has failed (non-success status, or the connection
\* failing before or during the stream) the generator has ended with that
\* failure as its exception, never with a normal end, and no chunk is
\* yielded afterwards.
C5_FailureReachesCaller ==
    [][/\ fault' # "none" => (gen' = "done" /\ exc' = fault')
       /\ fault # "none" => (yielded' = yielded /\ nread' = nread)]_vars

C5_Witness ==
    /\ fault = "ConnectionError"
    /\ exc = "ConnectionError"
    /\ Len(yielded) >= 1
    /\ nread < Len(lines)
    /\ extraPulls >= 1

\* C6: the lines read never exceed what the chunks pulled so far need: after
\* k calls of next() no line beyond the k-th chunk-producing line has been
\* read, and each chunk yielded was pulled.
C6_Lazy ==
    /\ nread <= NeededFor(pulls)
    /\ Len(yielded) <= pulls
    /\ gen = "suspended" => nread \in YieldPositions

C6_Witness ==
    /\ stopped
    /\ Len(yielded) = 1
    /\ pulls = 1
    /\ nread < Len(lines)
    /\ PayloadParses(lines[nread + 1])

\* C7: the decoder is OPEN or CLOSED; it is CLOSED once the source is
\* exhausted or the caller has stopped; and from CLOSED it stays CLOSED,
\* yields no chunk, reports nothing and reads no line.
C7_ClosedIsAbsorbing ==
    [][/\ DecoderState' \in {"OPEN", "CLOSED"}
       /\ (exc' = "StopIteration" \/ stopped') => DecoderState' = "CLOSED"
       /\ DecoderState = "CLOSED"
            => /\ DecoderState' = "CLOSED"
               /\ yielded' = yielded
               /\ diags' = diags
               /\ nread' = nread]_vars

C7_Witness ==
    /\ gen = "done"
    /\ exc = "StopIteration"
    /\ Len(yielded) >= 1
    /\ extraPulls >= 1

\* C8: the requests issued are in the order health, list, create, fetch,
\* generate, stream (add_message, which the list does not name, apart); no
\* request is issued twice; and a request is issued only when every earlier
\* one has returned or failed.
C8_FixedOrder ==
    /\ IsPrefix(Project(log, StepOrder), StepOrder)
    /\ \A i, j \in 1..Len(log) : i < j => log[i] # log[j]
    /\ \A i \in 1..(Len(log) - 1) : outcome[log[i]] # "pending"
    /\ inflight # "none" => (log # << >> /\ inflight = log[Len(log)])

C8_Witness ==
    /\ mpc = "done"
    /\ log = Program
    /\ outcome["generate"] = "ok"
    /\ outcome["stream"] = "ok"

\* C9: a ConnectionError of the health check ends the run with no further
\* request; an error of list, create, fetch or add_message ends the run with
\* that request the last one issued; an error of generate does not end the
\* run: add_message, which opens the streaming step, is issued next, and the
\* stream request after it when add_message succeeds; main() never ends by
\* an exception leaving it.
C9_FailureContainment ==
    /\ outcome["health"] = "ConnectionError"
         => (mpc = "done" /\ log = <<"health">>)
    /\ \A s \in {"list", "create", "fetch", "add_message"} :
         outcome[s] \notin {"pending", "ok"}
           => (mpc = "done" /\ log # << >> /\ log[Len(log)] = s)
    /\ outcome["generate"] \notin {"pending", "ok"}
         => /\ mpc \in {"add_message", "stream", "done"}
            /\ mpc # "add_message"
                 => (Len(log) >= 6 /\ log[6] = "add_message")
            /\ (outcome["add_message"] = "ok" /\ mpc = "done")
                 => (Len(log) = 7 /\ log[7] = "stream")
    /\ mresult # "propagated"
    /\ mpc = "done" <=> mresult = "returned"

C9_Witness ==
    /\ mpc = "done"
    /\ outcome["generate"] = "Exception"
    /\ outcome["stream"] # "pending"
    /\ log = Program

\* C10: what was yielded and what was reported add up to the lines read that
\* begin with "data: ", and the reports are as many as those of them whose
\* payload does not parse.
C10_Accounting ==
    /\ Len(yielded) + Len(diags) = Cardinality(DataLinesRead)
    /\ Len(diags)
         = Cardinality({ i \in DataLinesRead : ~PayloadParses(lines[i]) })

====
